---- MODULE Spec2Model ----
(***************************************************************************)
(* fiber-goth: session manager (Protect middleware), CSRF guard and the    *)
(* BeginAuth, CompleteAuth and Logout handlers, modelled as request state  *)
(* machines over one storage adapter.  Every adapter call and every read   *)
(* of the clock is a step of its own, so concurrent requests interleave    *)
(* exactly where the Go handlers can be interleaved.                       *)
(*                                                                         *)
(* Time is counted in abstract ticks; the two durations keep their order   *)
(* (csrf IdleTimeout < session Expiry).                                    *)
(***************************************************************************)
EXTENDS Integers, FiniteSets, Sequences, TLC

\* ---------------------------------------------------------------- bounds
MaxTime == 3
MaxCsrf == 3
MaxSess == 2
MaxRequests == 3
MaxState == 1

\* ------------------------------------------------------ program constants
\* ConfigDefault.Expiry ("7h"), in ticks
SessionTTL == 2
\* csrf ConfigDefault.IdleTimeout (30 minutes), in ticks
IdleTimeout == 1
\* stateFromContext: generateRandomString(64)
NonceLen == 64
\* goth defaultErrorHandler: fiber.ErrBadRequest
StatusBadRequest == 400
\* csrf defaultErrorHandler: fiber.ErrForbidden
StatusForbidden == 403

Req == {1, 2}
Users == {1, 2}
SessTok == 1..MaxSess
CsrfTok == 1..MaxCsrf
States == 1..MaxState

\* request paths by segment: the application, the login page, the routes of
\* examples/main.go ("/login/:provider", "/auth/:provider/callback",
\* "/logout") and the callback handler mounted on a route without :provider
Paths == {<<"app">>, <<"login">>, <<"login", "github">>,
          <<"login", "gitlab">>, <<"auth", "github", "callback">>,
          <<"auth", "gitlab", "callback">>, <<"auth", "callback">>,
          <<"logout">>}
Methods == {"GET", "POST"}

\* csrf ConfigDefault.IgnoredMethods (of the methods modelled)
IgnoredMethods == {"GET"}

LoginURL == <<"login">>
LogoutURL == <<"logout">>
CallbackURL == <<"auth">>

\* github.New: the provider's id and name
GitHub == [id |-> "github", name |-> "GitHub"]

\* no provider (nil)
NoProvider == [id |-> "", name |-> ""]

\* providers.RegisterProvider: providers[p.ID()] = p
RegisterProviderByName(reg, p) ==
    [k \in DOMAIN reg \cup {p.name} |-> IF k = p.name THEN p ELSE reg[k]]
RegisterProvider(reg, p) ==
    [k \in DOMAIN reg \cup {p.id} |-> IF k = p.id THEN p ELSE reg[k]]

\* the registry after the registration of examples/main.go
providers == RegisterProvider([k \in {} |-> NoProvider], GitHub)

\* the keys of the registry
Registered == DOMAIN providers

\* the values of cfg.Expiry modelled: the default and one that
\* time.ParseDuration rejects
Expiries == {"7h", "seven hours"}

NoSession == [none |-> TRUE]

\* a cookie value that is the token of no session
NoToken == MaxSess + 1

VARIABLES
    now,        \* time.Now()
    store,      \* the sessions table behind the adapter, by session_token
    nextSess,   \* the next uuid.NewString() of CreateSession
    nextCsrf,   \* the next token of cfg.TokenGenerator
    updateImpl, \* whether the configured adapter implements UpdateSession
    cfgExpiry,  \* cfg.Expiry
    users,      \* the users table (each user with its accounts), by user
    completed,  \* per state value: callbacks carrying it that created a session
    req,        \* the requests in flight: position, input, locals, response
    started,    \* number of requests received so far
    validated,  \* per csrf token: requests that passed the token check
    accepted,   \* per csrf token: requests let through after consuming it
    issued,     \* per session token: Expires of the cookie CompleteAuth set
    slid,       \* per session token: a later request has written the session
    loggedOut,  \* the session tokens a logout has deleted the session of
    handed      \* per state value: BeginAuth calls that handed it on

vars == <<now, store, nextSess, nextCsrf, updateImpl, cfgExpiry, users,
          completed, req, started,
          validated, accepted, issued, slid, loggedOut, handed>>

\* adapters.GothSession with its CSRF sub-record
Session(tok, uid, exp, ctok, cexp) ==
    [token |-> tok, userID |-> uid, expiresAt |-> exp,
     csrfTok |-> ctok, csrfExp |-> cexp]

\* GothSession.IsValid: s.ExpiresAt.After(time.Now())
IsValidAtBoundary(s, t) == s.expiresAt >= t
IsValidAlways(s, t) == s.expiresAt >= 0
IsValid(s, t) == s.expiresAt > t

\* GothCsrfToken.HasExpired
HasExpired(s, t) == s.csrfExp <= t

\* GothCsrfToken.IsValid(token)
CsrfIsValid(s, token) == s.csrfTok = token

\* the state value of a handshake: generated by stateFromContext (gen) or
\* taken from the request (id), and its length where the code fixes it
NoState == [gen |-> FALSE, id |-> 0, len |-> 0]

\* c.Locals(key) of a key nothing was stored under
NoLocal == [type |-> "", val |-> 0]

\* a request that has not been received yet
IdleReq ==
    [pc |-> "idle", app |-> "", method |-> "GET", path |-> <<"app">>,
     cookie |-> 0,
     header |-> 0, code |-> 0, state |-> 0, next |-> FALSE,
     via |-> "", extracted |-> FALSE, getCalls |-> 0, notFound |-> FALSE,
     status |-> 0, prov |-> NoProvider, authURL |-> "", stateOut |-> NoState, created |-> 0, expAt |-> -1,
     rotAt |-> -1, cleared |-> FALSE, op |-> "",
     sess |-> NoSession, loadedExp |-> -1, locals |-> FALSE,
     tokenLocal |-> NoLocal, userLocal |-> NoLocal,
     csrfLocal |-> 0, cookieOut |-> -1, cookieTok |-> 0,
     protect |-> "none", csrf |-> "none", result |-> "none", err |-> "",
     refreshCalls |-> 0, wroteNone |-> FALSE, updateCalls |-> 0, handler |-> FALSE,
     ioFail |-> FALSE, validAt |-> -1, slideAt |-> -1, validRes |-> FALSE, user |-> 0, ident |-> 0,
     consumed |-> 0, replay |-> FALSE, fresh |-> FALSE]

\* The store is empty, or it holds the session of one earlier login, with
\* a CSRF record as an adapter that keeps the sub-record holds it.  The
\* adapter configured either implements UpdateSession or inherits it from
\* UnimplementedAdapter (as the gorm adapter does); cfg.Expiry parses or
\* does not.
Init ==
    /\ now = 0
    /\ \E seeded \in BOOLEAN :
         /\ store = [t \in SessTok |->
                       IF seeded /\ t = 1
                       THEN Session(1, 1, SessionTTL, 1, IdleTimeout)
                       ELSE NoSession]
         /\ nextSess = IF seeded THEN 2 ELSE 1
         /\ users = IF seeded THEN {1} ELSE {}
    /\ nextCsrf = 2
    /\ updateImpl \in BOOLEAN
    /\ cfgExpiry \in Expiries
    /\ completed = [s \in States |-> 0]
    /\ req = [r \in Req |-> IdleReq]
    /\ started = 0
    /\ validated = [t \in CsrfTok |-> 0]
    /\ accepted = [t \in CsrfTok |-> 0]
    /\ issued = [t \in SessTok |-> -1]
    /\ slid = [t \in SessTok |-> FALSE]
    /\ loggedOut = {}
    /\ handed = [s \in States |-> 0]

\* time.Now() advances
Tick ==
    /\ now < MaxTime
    /\ now' = now + 1
    /\ UNCHANGED <<store, nextSess, nextCsrf, updateImpl, cfgExpiry, users,
                   completed, req, started, validated, accepted, issued,
                   slid>>
    /\ UNCHANGED <<loggedOut, handed>>

\* ------------------------------------------------------- storage adapter
\* gormAdapter.GetSession: the row with that session_token, if any
GetSession(st, tok) == IF tok \in SessTok THEN st[tok] ELSE NoSession

\* gormAdapter.RefreshSession: Updates(&session) on the row with that
\* session_token; no row, no write and no error
RefreshSessionWholeRow(st, s) ==
    IF st[s.token] = NoSession THEN st ELSE [st EXCEPT ![s.token] = s]
RefreshSessionNoWrite(st, s) == st
RefreshSession(st, s) ==
    IF st[s.token] = NoSession THEN st
    ELSE [st EXCEPT ![s.token].expiresAt = s.expiresAt,
                    ![s.token].userID = s.userID]

\* Adapter.UpdateSession of an adapter that implements it: the session row
\* and its CSRF sub-record take the values handed in
UpdateSession(st, s) ==
    IF st[s.token] = NoSession THEN st
    ELSE [st EXCEPT ![s.token] = s]

\* UnimplementedAdapter.UpdateSession, which the gorm adapter inherits:
\* the error ErrUnimplemented, and nothing written
UnimplementedSilent(st, s) == [store |-> st, err |-> ""]
Unimplemented(st, s) == [store |-> st, err |-> "ErrUnimplemented"]

\* gormAdapter.CreateSession: a new row with a fresh token, no CSRF record
CreateSessionOnFirstRow(st, tok, uid, exp) ==
    [st EXCEPT ![1] = Session(1, uid, exp, 0, -1)]
CreateSessionNoOwner(st, tok, uid, exp) ==
    [st EXCEPT ![tok] = Session(tok, 0, exp, 0, -1)]
CreateSessionNoExpiry(st, tok, uid, exp) ==
    [st EXCEPT ![tok] = Session(tok, uid, 0, 0, -1)]
CreateSession(st, tok, uid, exp) ==
    [st EXCEPT ![tok] = Session(tok, uid, exp, 0, -1)]

\* ------------------------------------------------------------- requests
Set(r, rec) == req' = [req EXCEPT ![r] = rec]

\* cfg.ErrorHandler(c, e): the request ends in the error handler, the
\* default one of package goth; csrf.New overrides the status with the
\* one of the default handler of package csrf
Fail(rec, e) ==
    [rec EXCEPT !.pc = "done", !.result = "error", !.err = e,
                !.via = "cfg.ErrorHandler", !.status = StatusBadRequest]

\* return e: the handler hands the error to the application, not to
\* cfg.ErrorHandler
Return(rec, e) ==
    [rec EXCEPT !.pc = "done", !.result = "error", !.err = e,
                !.via = "return"]

\* c.Redirect(cfg.LoginURL, 307)
Redirect(rec) == [rec EXCEPT !.pc = "done", !.result = "redirect"]

\* strings.HasPrefix(s, prefix), on path segments
HasPrefix(s, prefix) ==
    /\ Len(prefix) <= Len(s)
    /\ SubSeq(s, 1, Len(prefix)) = prefix

\* c.Params("provider") of the route the path matches
Params(p) ==
    IF Len(p) = 3 \/ (Len(p) = 2 /\ HasPrefix(p, LoginURL)) THEN p[2]
    ELSE ""

\* providers.GetProvider: is a provider registered under that name
GetProvider(name) == name \in Registered

\* providers.GetProvider: the provider it returns, nil with the error
Provider(name) == IF GetProvider(name) THEN providers[name] ELSE NoProvider

\* time.ParseDuration(cfg.Expiry): does it parse
ParseDuration(e) == e = "7h"

\* NewProtectMiddleware: cfg.Next(c) and the three strings.HasPrefix tests
SkipsProtectNoLogout(q) ==
    \/ q.next
    \/ HasPrefix(q.path, LoginURL)
    \/ HasPrefix(q.path, CallbackURL)
SkipsProtect(q) ==
    \/ q.next
    \/ HasPrefix(q.path, LoginURL)
    \/ HasPrefix(q.path, LogoutURL)
    \/ HasPrefix(q.path, CallbackURL)

\* the handler the route of the path leads to behind the Protect
\* middleware: the handshake and logout handlers, else the application's
\* handler, with the csrf guard in front of it where the application
\* mounts one (examples/main.go mounts none; "account" is a guarded
\* application with the logout route)
Route(q) ==
    IF HasPrefix(q.path, CallbackURL) THEN "complete"
    ELSE IF HasPrefix(q.path, LogoutURL) THEN "logout"
    ELSE IF HasPrefix(q.path, LoginURL) /\ Len(q.path) = 2 THEN "begin"
    ELSE IF q.app \in {"guarded", "account"} THEN "csrf"
    ELSE "handler"

\* TokenFromCookie: the error it returns ("" for none)
TokenFromCookieNoError(q) == ""
TokenFromCookie(q) == IF q.cookie = 0 THEN "ErrMissingCookie" ELSE ""

\* expires := time.Now().Add(duration), duration parsed from cfg.Expiry
ExpiresNoTTL(t) == t
Expires(t) == t + SessionTTL

\* goth.SessionFromContext: is there a session under sessionKey
SessionFromContextZero(q) == TRUE
SessionFromContext(q) == q.locals

\* goth.TokenFromContext: c.Locals(tokenKey).(string), "" (here 0) when
\* the value is no string.  The session row's ID stands one to one for
\* its token here.
TokenFromContext(q) ==
    IF q.tokenLocal.type = "string" THEN q.tokenLocal.val ELSE 0

\* csrf.New: the extractor, the empty check, HasExpired and IsValid(token)
CsrfRejectNoExpiry(q, t) ==
    \/ q.header = 0
    \/ ~CsrfIsValid(q.sess, q.header)
CsrfReject(q, t) ==
    \/ q.header = 0
    \/ HasExpired(q.sess, t)
    \/ ~CsrfIsValid(q.sess, q.header)

\* session.CsrfToken = adapters.GothCsrfToken{Token: t, ExpiresAt: ...}
RotatedKeepToken(s, tok, t) == [s EXCEPT !.csrfExp = t + IdleTimeout]
RotatedNoIdle(s, tok, t) == [s EXCEPT !.csrfTok = tok, !.csrfExp = t]
Rotated(s, tok, t) ==
    [s EXCEPT !.csrfTok = tok, !.csrfExp = t + IdleTimeout]

\* the routes of an application with the csrf guard
GuardedPaths == {<<"app">>, <<"login">>, <<"auth", "github", "callback">>}

\* the routes of an application of the kind app: "protected" mounts
\* NewProtectedHandler(h) on its route and "session" mounts
\* NewSessionHandler, each without the Protect middleware in front
AppPaths(app) ==
    IF app = "guarded" THEN GuardedPaths
    ELSE IF app = "example" THEN Paths
    ELSE IF app = "account" THEN {<<"app">>, <<"logout">>}
    ELSE IF app = "protected" THEN {<<"app">>}
    ELSE {<<"session">>}

\* a request arrives at an application of the kind app: "example" has the
\* GET routes of examples/main.go and a cfg.Next that answers true for some
\* application requests; "guarded" has the csrf guard in front of its
\* handlers, which take GET and POST, and the github callback.  A GET
\* carries no csrf header, the handshake requests no cookie, only the
\* callback a code.  The cookie, if any, holds a session token issued
\* earlier or a value that is no session token (NoToken).
Start(r, max, app) ==
    /\ req[r].pc \in {"idle", "done"}
    /\ started < max
    /\ started' = started + 1
    /\ \E p \in AppPaths(app) :
         LET rt == Route([app |-> app, path |-> p])
             shake == rt \in {"begin", "complete"}
             known == GetProvider(Params(p))
         IN
         \E m \in (IF rt = "csrf" THEN Methods ELSE {"GET"}),
            ck \in (IF shake \/ p = LoginURL THEN {0}
                    ELSE (0..(nextSess - 1)) \cup {NoToken}),
            cd \in (IF rt # "complete" \/ ~known THEN {0}
                    ELSE IF app = "guarded" THEN {1} ELSE 0..1),
            st \in (IF shake /\ known /\ app = "example" THEN 0..MaxState
                                                         ELSE {0}),
            nx \in (IF rt = "handler" /\ p # LoginURL THEN BOOLEAN
                                                      ELSE {FALSE}) :
           \E h \in (IF m = "GET" THEN {0}
                     ELSE IF p = LoginURL THEN 0..1 ELSE 0..MaxCsrf) :
             Set(r, [IdleReq EXCEPT !.pc = "protect", !.app = app,
                                    !.method = m, !.path = p,
                                    !.cookie = ck, !.header = h,
                                    !.code = cd, !.state = st,
                                    !.next = nx])
    /\ UNCHANGED <<now, store, nextSess, nextCsrf, updateImpl, cfgExpiry,
                   users, completed, validated, accepted, issued, slid>>
    /\ UNCHANGED <<loggedOut, handed>>

\* NewProtectMiddleware up to and including adapter.GetSession
ProtectEntry(r) ==
    /\ req[r].pc = "protect"
    /\ LET q == req[r] IN
       IF SkipsProtect(q)
       THEN Set(r, [q EXCEPT !.protect = "skip", !.pc = Route(q)])
       ELSE IF TokenFromCookie(q) = "ErrMissingCookie"
       THEN Set(r, [Redirect(q) EXCEPT !.protect = "redirect",
                                       !.extracted = TRUE])
       ELSE \E ok \in BOOLEAN :
              IF ~ok
              THEN Set(r, [Fail(q, "ErrIO") EXCEPT !.protect = "error",
                                                  !.ioFail = TRUE,
                                                  !.extracted = TRUE,
                                                  !.getCalls = @ + 1])
              ELSE IF GetSession(store, q.cookie) = NoSession
              THEN Set(r, [Fail(q, "ErrRecordNotFound")
                             EXCEPT !.protect = "error",
                                    !.notFound = TRUE,
                                    !.extracted = TRUE,
                                    !.getCalls = @ + 1])
              ELSE Set(r, [q EXCEPT !.pc = "valid",
                             !.extracted = TRUE,
                             !.getCalls = @ + 1,
                             !.sess = GetSession(store, q.cookie),
                             !.loadedExp = GetSession(store, q.cookie).expiresAt,
                             !.fresh = (issued[q.cookie] >= 0 /\
                                        ~slid[q.cookie])])
    /\ UNCHANGED <<now, store, nextSess, nextCsrf, updateImpl, cfgExpiry,
                   users, completed, started, validated, accepted, issued,
                   slid>>
    /\ UNCHANGED <<loggedOut, handed>>

\* NewProtectMiddleware: if !session.IsValid() redirect to the login route
ProtectValid(r) ==
    /\ req[r].pc = "valid"
    /\ LET q == [req[r] EXCEPT !.validAt = now,
                               !.validRes = IsValid(req[r].sess, now)] IN
       IF ~IsValid(q.sess, now)
       THEN Set(r, [Redirect(q) EXCEPT !.protect = "redirect"])
       ELSE Set(r, [q EXCEPT !.pc = "slide"])
    /\ UNCHANGED <<now, store, nextSess, nextCsrf, updateImpl, cfgExpiry,
                   users, completed, started, validated, accepted, issued,
                   slid>>
    /\ UNCHANGED <<loggedOut, handed>>

\* time.ParseDuration(cfg.Expiry); expires := time.Now().Add(duration);
\* session.ExpiresAt = expires
ProtectSlide(r) ==
    /\ req[r].pc = "slide"
    /\ IF ~ParseDuration(cfgExpiry)
       THEN Set(r, [Fail(req[r], "ErrParseDuration")
                      EXCEPT !.protect = "error"])
       ELSE Set(r, [req[r] EXCEPT !.pc = "refresh", !.slideAt = now,
                                  !.sess.expiresAt = Expires(now)])
    /\ UNCHANGED <<now, store, nextSess, nextCsrf, updateImpl, cfgExpiry,
                   users, completed, started, validated, accepted, issued,
                   slid>>
    /\ UNCHANGED <<loggedOut, handed>>

\* NewProtectMiddleware: RefreshSession returned an error
RefreshFailedWithCookie(q) ==
    [Fail(q, "ErrIO") EXCEPT !.protect = "error", !.ioFail = TRUE,
                             !.cookieOut = q.sess.expiresAt]
RefreshFailed(q) ==
    [Fail(q, "ErrIO") EXCEPT !.protect = "error", !.ioFail = TRUE]

\* adapter.RefreshSession, the cookie, c.Locals and c.Next()
ProtectRefresh(r) ==
    /\ req[r].pc = "refresh"
    /\ LET q == [req[r] EXCEPT !.refreshCalls = @ + 1] IN
       \E ok \in BOOLEAN :
         IF ~ok
         THEN /\ Set(r, RefreshFailed(q))
              /\ UNCHANGED <<store, slid>>
         ELSE /\ store' = RefreshSession(store, q.sess)
              /\ slid' = [slid EXCEPT ![q.sess.token] = TRUE]
              /\ Set(r, [q EXCEPT !.pc = Route(q), !.protect = "next",
                            !.wroteNone = (store[q.sess.token] = NoSession),
                            !.cookieOut = q.sess.expiresAt,
                            !.cookieTok = q.sess.token,
                            !.tokenLocal = [type |-> "uuid.UUID",
                                            val |-> q.sess.token],
                            !.locals = TRUE,
                            !.userLocal = [type |-> "uuid.UUID",
                                           val |-> q.sess.userID]])
    /\ UNCHANGED <<now, nextSess, nextCsrf, updateImpl, cfgExpiry, users,
                   completed, started, validated, accepted, issued>>
    /\ UNCHANGED <<loggedOut, handed>>

\* ------------------------------------------------------------ csrf guard
\* csrf.New from goth.SessionFromContext to the two token checks
CsrfCheck(r) ==
    /\ req[r].pc = "csrf"
    /\ LET q == req[r] IN
       IF ~SessionFromContext(q)
       THEN /\ Set(r, [Fail(q, "csrf.ErrMissingSession")
                         EXCEPT !.csrf = "error", !.status = StatusForbidden])
            /\ UNCHANGED validated
       ELSE IF q.method \in IgnoredMethods
       THEN /\ Set(r, [q EXCEPT !.pc = "handler", !.csrf = "skip"])
            /\ UNCHANGED validated
       ELSE IF CsrfReject(q, now)
       THEN /\ Set(r, [Fail(q, "csrf.ErrTokenNotFound")
                         EXCEPT !.csrf = "error", !.status = StatusForbidden,
                                !.replay = (q.header # 0 /\
                                            accepted[q.header] > 0)])
            /\ UNCHANGED validated
       ELSE /\ Set(r, [q EXCEPT !.pc = "gen", !.consumed = q.header,
                                !.replay = (accepted[q.header] > 0)])
            /\ validated' = [validated EXCEPT ![q.header] = @ + 1]
    /\ UNCHANGED <<now, store, nextSess, nextCsrf, updateImpl, cfgExpiry,
                   users, completed, started, accepted, issued, slid>>
    /\ UNCHANGED <<loggedOut, handed>>

\* cfg.TokenGenerator() and the new GothCsrfToken{t, time.Now()+IdleTimeout}
CsrfGenerate(r) ==
    /\ req[r].pc = "gen"
    /\ \E ok \in BOOLEAN :
         IF ~ok
         THEN /\ Set(r, [Fail(req[r], "csrf.ErrGenerateToken")
                           EXCEPT !.csrf = "error", !.status = StatusForbidden])
              /\ UNCHANGED nextCsrf
         ELSE /\ nextCsrf <= MaxCsrf
              /\ nextCsrf' = nextCsrf + 1
              /\ Set(r, [req[r] EXCEPT !.pc = "update", !.rotAt = now,
                                       !.sess = Rotated(@, nextCsrf, now)])
    /\ UNCHANGED <<now, store, nextSess, updateImpl, cfgExpiry, users,
                   completed, started, validated, accepted, issued, slid>>
    /\ UNCHANGED <<loggedOut, handed>>

\* cfg.Adapter.UpdateSession, c.Locals(csrfTokenKey, ...) and c.Next()
CsrfUpdate(r) ==
    /\ req[r].pc = "update"
    /\ LET q == [req[r] EXCEPT !.updateCalls = @ + 1] IN
       IF ~updateImpl
       THEN LET out == Unimplemented(store, q.sess) IN
            /\ store' = out.store
            /\ IF out.err # ""
               THEN /\ Set(r, [Fail(q, out.err)
                                 EXCEPT !.csrf = "error",
                                        !.status = StatusForbidden])
                    /\ UNCHANGED <<accepted, slid>>
               ELSE /\ slid' = [slid EXCEPT ![q.sess.token] = TRUE]
                    /\ accepted' = [accepted EXCEPT ![q.consumed] = @ + 1]
                    /\ Set(r, [q EXCEPT !.pc = "handler", !.csrf = "next",
                                  !.csrfLocal = q.sess.csrfTok])
       ELSE \E ok \in BOOLEAN :
              IF ~ok
              THEN /\ Set(r, [Fail(q, "ErrIO") EXCEPT !.csrf = "error",
                                                      !.status = StatusForbidden,
                                                      !.ioFail = TRUE])
                   /\ UNCHANGED <<store, accepted, slid>>
              ELSE /\ store' = UpdateSession(store, q.sess)
                   /\ slid' = [slid EXCEPT ![q.sess.token] = TRUE]
                   /\ accepted' = [accepted EXCEPT ![q.consumed] = @ + 1]
                   /\ Set(r, [q EXCEPT !.pc = "handler", !.csrf = "next",
                                 !.csrfLocal = q.sess.csrfTok])
    /\ UNCHANGED <<now, nextSess, nextCsrf, updateImpl, cfgExpiry, users,
                   completed, started, validated, issued>>
    /\ UNCHANGED <<loggedOut, handed>>

\* the downstream handler behind the middlewares
Handler(r) ==
    /\ req[r].pc = "handler"
    /\ Set(r, [req[r] EXCEPT !.pc = "done", !.handler = TRUE,
                             !.result = "forwarded"])
    /\ UNCHANGED <<now, store, nextSess, nextCsrf, updateImpl, cfgExpiry,
                   users, completed, started, validated, accepted, issued,
                   slid>>
    /\ UNCHANGED <<loggedOut, handed>>

\* ---------------------------------------------------------- CompleteAuth
\* provider.CompleteAuth (github, entraid): the error for a callback
\* without code ("" for none)
CompleteAuthCodeUnchecked(q) == ""
CompleteAuthCode(q) == IF q.code = 0 THEN "ErrUnimplemented" ELSE ""

\* CompleteAuthCompleteHandler.New: c.Params, providers.GetProvider and
\* provider.CompleteAuth up to the profile it fetched from the provider
\* (u = 0: the exchange, the profile request or the e-mail lookup failed)
CompleteProvider(r) ==
    /\ req[r].pc = "complete"
    /\ LET q == [req[r] EXCEPT !.prov = Provider(Params(req[r].path))] IN
       IF Params(q.path) = ""
       THEN Set(r, Fail(q, "ErrMissingProviderName"))
       ELSE IF ~GetProvider(Params(q.path))
       THEN Set(r, Fail(q, "ErrNoProvider"))
       ELSE IF CompleteAuthCode(q) # ""
       THEN Set(r, Fail(q, CompleteAuthCode(q)))
       ELSE \E u \in Users \cup {0} :
              IF u = 0
              THEN Set(r, Fail(q, "ErrProvider"))
              ELSE Set(r, [q EXCEPT !.pc = "user", !.user = u,
                                    !.ident = u])
    /\ UNCHANGED <<now, store, nextSess, nextCsrf, updateImpl, cfgExpiry,
                   users, completed, started, validated, accepted, issued,
                   slid>>
    /\ UNCHANGED <<loggedOut, handed>>

\* gormAdapter.CreateUser: db.FirstOrCreate(&user) with no condition and
\* the primary key of user not set: the first row of the users table by
\* primary key if the table has a row, else user is inserted; the user
\* it returns is that row
CreateUser(us, u) ==
    IF us = {}
    THEN [users |-> {u}, user |-> u]
    ELSE [users |-> us, user |-> CHOOSE x \in us : \A y \in us : x <= y]

\* provider.CompleteAuth: adapter.CreateUser, then adapter.GetUser
CompleteUser(r) ==
    /\ req[r].pc = "user"
    /\ \E out \in {"CreateUser", "GetUser", ""} :
         IF out = "CreateUser"
         THEN /\ Set(r, [Fail(req[r], "ErrIO") EXCEPT !.ioFail = TRUE,
                                                        !.op = out])
              /\ UNCHANGED users
         ELSE /\ users' = CreateUser(users, req[r].user).users
              /\ IF out = "GetUser"
                 THEN Set(r, [Fail(req[r], "ErrIO") EXCEPT !.ioFail = TRUE,
                                                           !.op = out])
                 ELSE Set(r, [req[r] EXCEPT
                                !.pc = "create",
                                !.user = CreateUser(users, @).user])
    /\ UNCHANGED <<now, store, nextSess, nextCsrf, updateImpl, cfgExpiry,
                   completed, started, validated, accepted, issued, slid>>
    /\ UNCHANGED <<loggedOut, handed>>

\* CompleteAuthCompleteHandler.New: CreateSession returned an error
CreateSessionFailedWithCookie(q) ==
    [Fail(q, "ErrIO") EXCEPT !.ioFail = TRUE, !.op = "CreateSession",
                             !.cookieOut = 0]
CreateSessionFailed(q) ==
    [Fail(q, "ErrIO") EXCEPT !.ioFail = TRUE, !.op = "CreateSession"]

\* time.ParseDuration, expires := time.Now().Add(duration),
\* adapter.CreateSession, the cookie and cfg.ResponseFilter
CompleteCreate(r) ==
    /\ req[r].pc = "create"
    /\ LET q == req[r] IN
       IF ~ParseDuration(cfgExpiry)
       THEN /\ Set(r, Fail(q, "ErrParseDuration"))
            /\ UNCHANGED <<store, nextSess, issued, completed>>
       ELSE \E ok \in BOOLEAN :
         IF ~ok
         THEN /\ Set(r, CreateSessionFailed(q))
              /\ UNCHANGED <<store, nextSess, issued, completed>>
         ELSE /\ nextSess <= MaxSess
              /\ store' = CreateSession(store, nextSess, q.user,
                                        Expires(now))
              /\ nextSess' = nextSess + 1
              /\ issued' = [issued EXCEPT ![nextSess] = Expires(now)]
              /\ completed' = IF q.state = 0 THEN completed
                              ELSE [completed EXCEPT ![q.state] = @ + 1]
              /\ Set(r, [q EXCEPT !.pc = "done", !.result = "ok",
                                  !.cookieOut = Expires(now),
                                  !.cookieTok = nextSess,
                                  !.created = nextSess,
                                  !.expAt = now])
    /\ UNCHANGED <<now, nextCsrf, updateImpl, cfgExpiry, users, started,
                   validated, accepted, slid>>
    /\ UNCHANGED <<loggedOut, handed>>

\* ------------------------------------------------------------- BeginAuth
\* base64.URLEncoding.EncodeToString: the length of the encoding (with
\* padding) of n bytes
EncodedLenUnpadded(n) == n
EncodedLen(n) == 4 * ((n + 2) \div 3)

\* BeginAuthHandler.New: c.Params, providers.GetProvider, stateFromContext
\* (the state of the request if it carries one, else a nonce of NonceLen
\* characters, base64url-encoded), provider.BeginAuth and the redirect to
\* the URL of the intent.  A state taken from the request keeps the
\* length it came with (len 0: not fixed by the code).
BeginAuth(r) ==
    /\ req[r].pc = "begin"
    /\ LET q == [req[r] EXCEPT !.prov = Provider(Params(req[r].path))] IN
       IF Params(q.path) = ""
       THEN /\ Set(r, Return(q, "ErrMissingProviderName"))
            /\ UNCHANGED handed
       ELSE IF ~GetProvider(Params(q.path))
       THEN /\ Set(r, Return(q, "ErrNoProvider"))
            /\ UNCHANGED handed
       ELSE IF q.state > 0
       THEN /\ Set(r, [q EXCEPT !.pc = "done", !.result = "redirect",
                      !.authURL = Params(q.path),
                      !.stateOut = [gen |-> FALSE, id |-> q.state,
                                    len |-> 0]])
            /\ handed' = [handed EXCEPT ![q.state] = @ + 1]
       ELSE /\ UNCHANGED handed
            /\ \E ok \in BOOLEAN :
              IF ~ok
              THEN Set(r, Return(q, "ErrRand"))
              ELSE Set(r, [q EXCEPT !.pc = "done", !.result = "redirect",
                             !.authURL = Params(q.path),
                             !.stateOut = [gen |-> TRUE, id |-> 0,
                                           len |-> EncodedLen(NonceLen)]])
    /\ UNCHANGED <<now, store, nextSess, nextCsrf, updateImpl, cfgExpiry,
                   users, completed, started, validated, accepted, issued,
                   slid>>
    /\ UNCHANGED loggedOut

\* ---------------------------------------------------------------- Logout
\* gormAdapter.DeleteSession: the rows with that session_token are deleted
DeleteSessionKeepsRow(st, tok) == st
DeleteSession(st, tok) ==
    IF tok \in SessTok THEN [st EXCEPT ![tok] = NoSession] ELSE st

\* LogoutHandler.New: cfg.Extractor, adapter.DeleteSession, c.ClearCookie
\* and cfg.ResponseFilter
Logout(r) ==
    /\ req[r].pc = "logout"
    /\ LET q == req[r] IN
       IF TokenFromCookie(q) # ""
       THEN /\ Set(r, Fail(q, TokenFromCookie(q)))
            /\ UNCHANGED <<store, slid, loggedOut>>
       ELSE \E ok \in BOOLEAN :
              IF ~ok
              THEN /\ Set(r, [Fail(q, "ErrIO") EXCEPT !.ioFail = TRUE])
                   /\ UNCHANGED <<store, slid, loggedOut>>
              ELSE /\ store' = DeleteSession(store, q.cookie)
                   /\ loggedOut' = loggedOut \cup ({q.cookie} \cap SessTok)
                   /\ slid' = [t \in SessTok |-> slid[t] \/ t = q.cookie]
                   /\ Set(r, [q EXCEPT !.pc = "done", !.result = "ok",
                                       !.cleared = TRUE])
    /\ UNCHANGED <<now, nextSess, nextCsrf, updateImpl, cfgExpiry, users,
                   completed, started, validated, accepted, issued>>
    /\ UNCHANGED handed

\* ------------------------------------------------- NewProtectedHandler
\* NewProtectedHandler(h) up to and including adapter.GetSession: cfg.Next
\* leads to c.Next(), past h
ProtectedEntry(r) ==
    /\ req[r].pc = "protect"
    /\ req[r].app = "protected"
    /\ LET q == req[r] IN
       IF q.next
       THEN Set(r, [q EXCEPT !.protect = "skip", !.pc = "done",
                             !.result = "next"])
       ELSE IF TokenFromCookie(q) = "ErrMissingCookie"
       THEN Set(r, [Redirect(q) EXCEPT !.protect = "redirect",
                                       !.extracted = TRUE])
       ELSE \E ok \in BOOLEAN :
              IF ~ok
              THEN Set(r, [Fail(q, "ErrIO") EXCEPT !.protect = "error",
                                                  !.ioFail = TRUE,
                                                  !.extracted = TRUE,
                                                  !.getCalls = @ + 1])
              ELSE IF GetSession(store, q.cookie) = NoSession
              THEN Set(r, [Fail(q, "ErrRecordNotFound")
                             EXCEPT !.protect = "error",
                                    !.notFound = TRUE,
                                    !.extracted = TRUE,
                                    !.getCalls = @ + 1])
              ELSE Set(r, [q EXCEPT !.pc = "valid",
                             !.extracted = TRUE,
                             !.getCalls = @ + 1,
                             !.sess = GetSession(store, q.cookie),
                             !.loadedExp = GetSession(store, q.cookie).expiresAt,
                             !.fresh = (issued[q.cookie] >= 0 /\
                                        ~slid[q.cookie])])
    /\ UNCHANGED <<now, store, nextSess, nextCsrf, updateImpl, cfgExpiry,
                   users, completed, started, validated, accepted, issued,
                   slid, loggedOut, handed>>

\* NewProtectedHandler: if !session.IsValid() redirect to the login route
ProtectedValid(r) ==
    /\ req[r].pc = "valid"
    /\ req[r].app = "protected"
    /\ LET q == [req[r] EXCEPT !.validAt = now,
                               !.validRes = IsValid(req[r].sess, now)] IN
       IF ~IsValid(q.sess, now)
       THEN Set(r, [Redirect(q) EXCEPT !.protect = "redirect"])
       ELSE Set(r, [q EXCEPT !.pc = "slide"])
    /\ UNCHANGED <<now, store, nextSess, nextCsrf, updateImpl, cfgExpiry,
                   users, completed, started, validated, accepted, issued,
                   slid, loggedOut, handed>>

\* NewProtectedHandler: time.ParseDuration(cfg.Expiry) and the new expiry
ProtectedSlide(r) ==
    /\ req[r].pc = "slide"
    /\ req[r].app = "protected"
    /\ IF ~ParseDuration(cfgExpiry)
       THEN Set(r, [Fail(req[r], "ErrParseDuration")
                      EXCEPT !.protect = "error"])
       ELSE Set(r, [req[r] EXCEPT !.pc = "refresh", !.slideAt = now,
                                  !.sess.expiresAt = Expires(now)])
    /\ UNCHANGED <<now, store, nextSess, nextCsrf, updateImpl, cfgExpiry,
                   users, completed, started, validated, accepted, issued,
                   slid, loggedOut, handed>>

\* NewProtectedHandler: adapter.RefreshSession, the cookie, c.Locals and
\* handler(c)
ProtectedRefresh(r) ==
    /\ req[r].pc = "refresh"
    /\ req[r].app = "protected"
    /\ LET q == [req[r] EXCEPT !.refreshCalls = @ + 1] IN
       \E ok \in BOOLEAN :
         IF ~ok
         THEN /\ Set(r, [Fail(q, "ErrIO") EXCEPT !.protect = "error",
                                                 !.ioFail = TRUE])
              /\ UNCHANGED <<store, slid>>
         ELSE /\ store' = RefreshSession(store, q.sess)
              /\ slid' = [slid EXCEPT ![q.sess.token] = TRUE]
              /\ Set(r, [q EXCEPT !.pc = "handler", !.protect = "next",
                            !.cookieOut = q.sess.expiresAt,
                            !.cookieTok = q.sess.token,
                            !.tokenLocal = [type |-> "uuid.UUID",
                                            val |-> q.sess.token],
                            !.locals = TRUE,
                            !.userLocal = [type |-> "uuid.UUID",
                                           val |-> q.sess.userID]])
    /\ UNCHANGED <<now, nextSess, nextCsrf, updateImpl, cfgExpiry, users,
                   completed, started, validated, accepted, issued,
                   loggedOut, handed>>

\* -------------------------------------------------------- SessionHandler
\* SessionHandler.New up to and including adapter.GetSession
SessionEntry(r) ==
    /\ req[r].pc = "protect"
    /\ req[r].app = "session"
    /\ LET q == req[r] IN
       IF q.next
       THEN Set(r, [q EXCEPT !.pc = "handler"])
       ELSE IF q.cookie = 0
       THEN Set(r, Fail(q, "ErrMissingCookie"))
       ELSE \E ok \in BOOLEAN :
              IF ~ok
              THEN Set(r, [Fail(q, "ErrIO") EXCEPT !.ioFail = TRUE,
                                                  !.getCalls = @ + 1])
              ELSE IF GetSession(store, q.cookie) = NoSession
              THEN Set(r, [Fail(q, "ErrRecordNotFound")
                             EXCEPT !.notFound = TRUE,
                                    !.getCalls = @ + 1])
              ELSE Set(r, [q EXCEPT !.pc = "valid",
                             !.getCalls = @ + 1,
                             !.sess = GetSession(store, q.cookie),
                             !.loadedExp = GetSession(store, q.cookie).expiresAt])
    /\ UNCHANGED <<now, store, nextSess, nextCsrf, updateImpl, cfgExpiry,
                   users, completed, started, validated, accepted, issued,
                   slid, loggedOut, handed>>

\* SessionHandler.New: if !session.IsValid() { cfg.ErrorHandler(c, err) },
\* the value of the error handler dropped and no return: the handler goes
\* on whatever IsValid answered
SessionValid(r) ==
    /\ req[r].pc = "valid"
    /\ req[r].app = "session"
    /\ Set(r, [req[r] EXCEPT !.pc = "slide", !.validAt = now,
                             !.validRes = IsValid(req[r].sess, now)])
    /\ UNCHANGED <<now, store, nextSess, nextCsrf, updateImpl, cfgExpiry,
                   users, completed, started, validated, accepted, issued,
                   slid, loggedOut, handed>>

\* SessionHandler.New: time.ParseDuration(cfg.Expiry) and the new expiry
SessionSlide(r) ==
    /\ req[r].pc = "slide"
    /\ req[r].app = "session"
    /\ IF ~ParseDuration(cfgExpiry)
       THEN Set(r, Fail(req[r], "ErrParseDuration"))
       ELSE Set(r, [req[r] EXCEPT !.pc = "refresh", !.slideAt = now,
                                  !.sess.expiresAt = Expires(now)])
    /\ UNCHANGED <<now, store, nextSess, nextCsrf, updateImpl, cfgExpiry,
                   users, completed, started, validated, accepted, issued,
                   slid, loggedOut, handed>>

\* SessionHandler.New: adapter.RefreshSession, the cookie and c.Next()
SessionRefresh(r) ==
    /\ req[r].pc = "refresh"
    /\ req[r].app = "session"
    /\ LET q == [req[r] EXCEPT !.refreshCalls = @ + 1] IN
       \E ok \in BOOLEAN :
         IF ~ok
         THEN /\ Set(r, [Fail(q, "ErrIO") EXCEPT !.ioFail = TRUE])
              /\ UNCHANGED <<store, slid>>
         ELSE /\ store' = RefreshSession(store, q.sess)
              /\ slid' = [slid EXCEPT ![q.sess.token] = TRUE]
              /\ Set(r, [q EXCEPT !.pc = "handler",
                            !.cookieOut = q.sess.expiresAt,
                            !.cookieTok = q.sess.token])
    /\ UNCHANGED <<now, nextSess, nextCsrf, updateImpl, cfgExpiry, users,
                   completed, started, validated, accepted, issued,
                   loggedOut, handed>>

\* ------------------------------------------------------- specifications
\* a step of a request of an application with the csrf guard
Step(r) ==
    \/ ProtectEntry(r)
    \/ ProtectValid(r)
    \/ ProtectSlide(r)
    \/ ProtectRefresh(r)
    \/ CsrfCheck(r)
    \/ CsrfGenerate(r)
    \/ CsrfUpdate(r)
    \/ Handler(r)
    \/ CompleteProvider(r)
    \/ CompleteUser(r)
    \/ CompleteCreate(r)

\* requests are served concurrently, one per worker
Next ==
    \/ Tick
    \/ \E r \in Req : Start(r, Cardinality(Req), "guarded")
    \/ \E r \in Req : Step(r)

Spec == Init /\ [][Next]_vars

\* requests are served one after another: a request is received only
\* when the one before it has been answered
NextSeq ==
    \/ Tick
    \/ Start(1, MaxRequests, "guarded")
    \/ Step(1)

SpecSeq == Init /\ [][NextSeq]_vars

\* a step of a request of the application of examples/main.go
StepAuth(r) ==
    \/ ProtectEntry(r)
    \/ ProtectValid(r)
    \/ ProtectSlide(r)
    \/ ProtectRefresh(r)
    \/ Handler(r)
    \/ BeginAuth(r)
    \/ CompleteProvider(r)
    \/ CompleteUser(r)
    \/ CompleteCreate(r)
    \/ Logout(r)

\* the application of examples/main.go, its requests served one after
\* another
NextAuth ==
    \/ Tick
    \/ Start(1, MaxRequests, "example")
    \/ StepAuth(1)

SpecAuth == Init /\ [][NextAuth]_vars

\* a step of a request of a guarded application with the logout route
StepLogout(r) ==
    \/ ProtectEntry(r)
    \/ ProtectValid(r)
    \/ ProtectSlide(r)
    \/ ProtectRefresh(r)
    \/ CsrfCheck(r)
    \/ CsrfGenerate(r)
    \/ CsrfUpdate(r)
    \/ Handler(r)
    \/ Logout(r)

\* that application, its requests served concurrently, one per worker
NextLogout ==
    \/ Tick
    \/ \E r \in Req : Start(r, Cardinality(Req), "account")
    \/ \E r \in Req : StepLogout(r)

SpecLogout == Init /\ [][NextLogout]_vars

\* a step of a request of an application that mounts the handlers
\* NewProtectedHandler(h) and NewSessionHandler on routes of their own
StepHandlers(r) ==
    \/ ProtectedEntry(r)
    \/ ProtectedValid(r)
    \/ ProtectedSlide(r)
    \/ ProtectedRefresh(r)
    \/ SessionEntry(r)
    \/ SessionValid(r)
    \/ SessionSlide(r)
    \/ SessionRefresh(r)
    \/ Handler(r)

\* the two handlers on their own routes, requests served one after another
NextHandlers ==
    \/ Tick
    \/ Start(1, MaxRequests, "protected")
    \/ Start(1, MaxRequests, "session")
    \/ StepHandlers(1)

SpecHandlers == Init /\ [][NextHandlers]_vars

TypeOK ==
    /\ now \in 0..MaxTime
    /\ nextSess \in 1..(MaxSess + 1)
    /\ nextCsrf \in 1..(MaxCsrf + 1)
    /\ started \in 0..MaxRequests

\* ================================================================ claims

PastRefresh == {"csrf", "gen", "update", "handler", "done"}

C2_AtMostOneAccept == \A t \in CsrfTok : accepted[t] <= 1

\* C3: every RefreshSession write of the Protect middleware leaves the
\* stored expiresAt at or above the value stored just before the write.
C3_RefreshMonotonic ==
    [][\A r \in Req :
         (req[r].pc = "refresh" /\ req'[r].pc = "csrf"
            /\ store[req[r].cookie] # NoSession)
         => store'[req[r].cookie].expiresAt >= store[req[r].cookie].expiresAt
      ]_vars

\* C4: a protected request whose session passed the validity check and
\* whose refresh did not fail is forwarded by the Protect middleware, and
\* the expiry it then holds (request state and cookie) is at or above the
\* expiry it read at its start; a GET among them reaches the handler.
C4_ConcurrentBothForwarded ==
    \A r \in Req :
      (req[r].validRes /\ req[r].pc \in PastRefresh
         /\ req[r].protect # "error")
      => /\ req[r].protect = "next"
         /\ req[r].locals
         /\ req[r].sess.expiresAt >= req[r].loadedExp
         /\ req[r].cookieOut >= req[r].loadedExp
         /\ (req[r].pc = "done" /\ req[r].method = "GET") => req[r].handler

\* two requests with the same session token are both past their refresh
\* and still in flight
C4_Witness ==
    /\ req[1].pc = "csrf" /\ req[2].pc = "csrf"
    /\ req[1].cookie = 1 /\ req[2].cookie = 1
    /\ req[1].protect = "next" /\ req[2].protect = "next"

\* C5: a request whose session is expired at the validity check
\* (now >= expiresAt) is answered with the redirect to the login route,
\* with no RefreshSession, no cookie, nothing in the request state and no
\* downstream handler.
C5_ExpiredRedirects ==
    \A r \in Req :
      (req[r].validAt >= 0 /\ req[r].validAt >= req[r].loadedExp)
      => /\ req[r].pc = "done"
         /\ req[r].result = "redirect"
         /\ req[r].protect = "redirect"
         /\ req[r].refreshCalls = 0
         /\ req[r].cookieOut = -1
         /\ ~req[r].locals
         /\ ~req[r].handler

\* a request found its session expired some time after the expiry
C5_Witness ==
    \E r \in Req : /\ req[r].validAt > req[r].loadedExp
                    /\ req[r].loadedExp >= 0
                    /\ req[r].result = "redirect"

\* C6: the cookie of a successful CompleteAuth, presented on the next
\* protected request: its session is found, the request is forwarded by
\* the Protect middleware when now < the cookie's Expires, and answered
\* with the redirect to the login route when now >= Expires.
C6_CookieRoundTrip ==
    \A r \in Req :
      /\ (req[r].cookie \in SessTok /\ issued[req[r].cookie] >= 0
            /\ ~slid[req[r].cookie])
           => req[r].err # "ErrRecordNotFound"
      /\ (req[r].fresh /\ req[r].validAt >= 0)
           => /\ req[r].validRes <=> (req[r].validAt < issued[req[r].cookie])
              /\ req[r].validRes => req[r].result # "redirect"
              /\ (req[r].validRes /\ req[r].pc \in PastRefresh
                     /\ req[r].protect # "error")
                   => (req[r].protect = "next"
                        /\ req[r].cookieTok = req[r].cookie)
              /\ ~req[r].validRes
                   => (req[r].result = "redirect" /\ ~req[r].handler)

\* the request right after CompleteAuth was forwarded with that cookie
C6_Witness ==
    \E r \in Req : /\ req[r].fresh
                    /\ req[r].validRes
                    /\ req[r].handler
                    /\ req[r].cookie = 2

\* C7: the validity check answers true exactly when now < expiresAt, for
\* the session as created, as slid, and at the boundary now = expiresAt.
C7_IsValidIffBefore ==
    \A r \in Req :
      req[r].validAt >= 0
      => (req[r].validRes <=> (req[r].validAt < req[r].loadedExp))

\* a slid session was checked exactly at its expiry and found invalid
C7_Witness ==
    \E r \in Req : /\ req[r].validAt = req[r].loadedExp
                    /\ req[r].loadedExp > SessionTTL
                    /\ ~req[r].validRes

\* C8: a request with an ignored method that reaches the csrf guard is
\* forwarded by it, also when no session is in the request state.
C8_IgnoredMethodSkipsFirst ==
    \A r \in Req :
      (req[r].method \in IgnoredMethods /\ req[r].csrf # "none")
      => req[r].csrf = "skip"

\* C9: a mutating request that reaches the csrf guard without a session in
\* the request state ends in the error handler with csrf.ErrMissingSession;
\* no downstream handler, no adapter write.
C9_MissingSessionFailsClosed ==
    \A r \in Req :
      (req[r].method \notin IgnoredMethods /\ ~req[r].locals
         /\ req[r].csrf # "none")
      => /\ req[r].pc = "done"
         /\ req[r].result = "error"
         /\ req[r].err = "csrf.ErrMissingSession"
         /\ ~req[r].handler
         /\ req[r].refreshCalls = 0
         /\ req[r].updateCalls = 0

\* a POST with a csrf header but without a session was turned away
C9_Witness ==
    \E r \in Req : /\ req[r].method = "POST"
                    /\ req[r].header = 1
                    /\ req[r].protect = "skip"
                    /\ req[r].err = "csrf.ErrMissingSession"

\* C10: the guard's step on a mutating request with a session whose csrf
\* header is missing, whose csrf record has expired or whose header differs
\* from the session's token ends in the error handler, with no downstream
\* handler, no UpdateSession and the store left as it was.
C10_RejectLeavesStore ==
    [][\A r \in Req :
         (/\ req[r].pc = "csrf" /\ req'[r].pc # "csrf"
          /\ req[r].locals
          /\ req[r].method \notin IgnoredMethods
          /\ \/ req[r].header = 0
             \/ HasExpired(req[r].sess, now)
             \/ req[r].sess.csrfTok # req[r].header)
         => /\ req'[r].pc = "done"
            /\ req'[r].result = "error"
            /\ req'[r].err = "csrf.ErrTokenNotFound"
            /\ ~req'[r].handler
            /\ req'[r].updateCalls = 0
            /\ store' = store
      ]_vars

\* a request presenting the session's own token after the csrf record
\* expired was rejected
C10_Witness ==
    \E r \in Req : /\ req[r].csrf = "error"
                    /\ req[r].err = "csrf.ErrTokenNotFound"
                    /\ req[r].header # 0
                    /\ req[r].header = req[r].sess.csrfTok
                    /\ req[r].updateCalls = 0

C12_GuardIssuesToken ==
    \A r \in Req :
      (/\ req[r].cookie \in SessTok
       /\ issued[req[r].cookie] >= 0
       /\ req[r].locals
       /\ req[r].csrf \in {"skip", "next"})
      => /\ req[r].csrfLocal # 0
         /\ store[req[r].cookie] # NoSession
         /\ store[req[r].cookie].csrfTok = req[r].csrfLocal

\* what the model shows instead: no mutating request of a session created
\* by CreateSession ever passes the guard
CreatedSessionNeverPasses ==
    \A r \in Req :
      (/\ req[r].cookie \in SessTok
       /\ issued[req[r].cookie] >= 0
       /\ req[r].method \notin IgnoredMethods)
      => req[r].csrf \notin {"skip", "next"}

\* C13: the CompleteAuth step of a callback without code, for a registered
\* provider, ends in the error handler with ErrUnimplemented; no user (with
\* its account) and no session is created and no cookie is set.
C13_NoCodeUnimplemented ==
    [][\A r \in Req :
         (/\ req[r].pc = "complete" /\ req'[r].pc # "complete"
          /\ GetProvider(Params(req[r].path))
          /\ req[r].code = 0)
         => /\ req'[r].pc = "done"
            /\ req'[r].result = "error"
            /\ req'[r].err = "ErrUnimplemented"
            /\ req'[r].via = "cfg.ErrorHandler"
            /\ req'[r].cookieOut = -1
            /\ req'[r].created = 0
            /\ users' = users
            /\ store' = store
            /\ nextSess' = nextSess
      ]_vars

\* a github callback that carried a state but no code was turned away
C13_Witness ==
    \E r \in Req : /\ req[r].path = <<"auth", "github", "callback">>
                    /\ req[r].code = 0
                    /\ req[r].state # 0
                    /\ req[r].err = "ErrUnimplemented"

\* C14: every step of CompleteAuth that ends the request without success
\* ends it in the error handler, with no cookie set and the stored
\* sessions as they were.
C14_FailureLeavesNothing ==
    [][\A r \in Req :
         (/\ req[r].pc \in {"complete", "user", "create"}
          /\ req'[r].pc = "done"
          /\ req'[r].result # "ok")
         => /\ req'[r].result = "error"
            /\ req'[r].via = "cfg.ErrorHandler"
            /\ req'[r].cookieOut = -1
            /\ req'[r].cookieTok = 0
            /\ req'[r].created = 0
            /\ store' = store
            /\ nextSess' = nextSess
      ]_vars

\* a callback whose user was stored failed in CreateSession
C14_Witness ==
    \E r \in Req : /\ req[r].op = "CreateSession"
                    /\ req[r].result = "error"
                    /\ req[r].user \in users

\* C15: after a successful CompleteAuth the session stored under the new
\* token has the user of the callback as owner and the expiry
\* (time of the callback) + SessionTTL, and the cookie of the response
\* carries that token with Expires equal to the stored expiry.
C15_SessionAsCreated ==
    \A r \in Req :
      (req[r].result = "ok" /\ req[r].created # 0)
      => LET s == store[req[r].created] IN
         /\ s # NoSession
         /\ s.userID = req[r].user
         /\ s.expiresAt = req[r].expAt + SessionTTL
         /\ req[r].cookieTok = s.token
         /\ req[r].cookieOut = s.expiresAt

\* a callback some time after the start created a session for a new user
C15_Witness ==
    \E r \in Req : /\ req[r].result = "ok"
                    /\ req[r].created # 0
                    /\ req[r].expAt > 0
                    /\ req[r].user = 2

\* C16: no state value is carried by more than one callback that is
\* accepted and creates a session.
C16_StateAcceptedOnce == \A s \in States : completed[s] <= 1

\* C17 (as stated): BeginAuth for github on a request without state
\* answers with the redirect to github's authorize URL, carrying a
\* generated state of exactly 64 characters.
C17_State64 ==
    \A r \in Req :
      (/\ req[r].path = <<"login", "github">>
       /\ req[r].state = 0
       /\ req[r].pc = "done"
       /\ req[r].result # "error")
      => /\ req[r].result = "redirect"
         /\ req[r].authURL = "github"
         /\ req[r].stateOut.gen
         /\ req[r].stateOut.len = 64

\* C17 (amended): ... carrying a generated state that is the base64url
\* encoding of 64 random characters, 88 characters long with its padding.
C17_StateEncoded ==
    \A r \in Req :
      (/\ req[r].path = <<"login", "github">>
       /\ req[r].state = 0
       /\ req[r].pc = "done"
       /\ req[r].result # "error")
      => /\ req[r].result = "redirect"
         /\ req[r].authURL = "github"
         /\ req[r].stateOut.gen
         /\ req[r].stateOut.len = 88

\* BeginAuth for github generated a state and redirected
C17_Witness ==
    \E r \in Req : /\ req[r].path = <<"login", "github">>
                    /\ req[r].state = 0
                    /\ req[r].result = "redirect"
                    /\ req[r].stateOut.gen

\* C18: a request that the Protect middleware does not skip and that has
\* no session cookie is answered with the redirect to the login route:
\* no error handler, no adapter call, no cookie, no downstream handler.
C18_NoCookieRedirects ==
    \A r \in Req :
      (/\ req[r].pc \notin {"idle", "protect"}
       /\ ~SkipsProtect(req[r])
       /\ req[r].cookie = 0)
      => /\ req[r].pc = "done"
         /\ req[r].result = "redirect"
         /\ req[r].protect = "redirect"
         /\ req[r].via = ""
         /\ req[r].getCalls = 0
         /\ req[r].refreshCalls = 0
         /\ req[r].updateCalls = 0
         /\ req[r].cookieOut = -1
         /\ ~req[r].handler

\* an application request without cookie was redirected
C18_Witness ==
    \E r \in Req : /\ req[r].path = <<"app">>
                    /\ ~req[r].next
                    /\ req[r].cookie = 0
                    /\ req[r].result = "redirect"

\* C19: in the Protect middleware a token for which GetSession finds no
\* session leads to the redirect to the login route and not to the error
\* handler, and an I/O failure of GetSession leads to the error handler.
C19_NotFoundRedirects ==
    \A r \in Req :
      /\ req[r].notFound
           => (req[r].result = "redirect" /\ req[r].via = "")
      /\ (req[r].ioFail /\ req[r].protect = "error")
           => (req[r].result = "error" /\ req[r].via = "cfg.ErrorHandler")

\* C20: the Protect step of a request whose path starts with LoginURL,
\* LogoutURL or CallbackURL, or for which cfg.Next answers true, hands the
\* request to the next handler with no token extracted, no adapter call,
\* no cookie, nothing in the request state and the store as it was.
C20_SkipLeavesAll ==
    [][\A r \in Req :
         (/\ req[r].pc = "protect" /\ req'[r].pc # "protect"
          /\ \/ req[r].next
             \/ HasPrefix(req[r].path, LoginURL)
             \/ HasPrefix(req[r].path, LogoutURL)
             \/ HasPrefix(req[r].path, CallbackURL))
         => /\ req'[r].protect = "skip"
            /\ req'[r].pc = Route(req[r])
            /\ req'[r].result = "none"
            /\ ~req'[r].extracted
            /\ req'[r].getCalls = 0
            /\ req'[r].refreshCalls = 0
            /\ req'[r].cookieOut = -1
            /\ ~req'[r].locals
            /\ store' = store
      ]_vars

\* a logout request and a request cfg.Next answered true for, both with
\* the cookie of a stored session, were skipped
C20_Witness ==
    \E r \in Req : /\ req[r].protect = "skip"
                    /\ req[r].cookie = 1
                    /\ req[r].pc = "done"
                    /\ (req[r].next \/ req[r].path = LogoutURL)

\* C21: after a logout that succeeded, GetSession for the token of its
\* cookie returns no session, and a later protected request that presents
\* that cookie value is not forwarded by the Protect middleware and does
\* not reach the downstream handler.
C21_LogoutDeletes ==
    /\ \A t \in loggedOut : GetSession(store, t) = NoSession
    /\ \A r \in Req :
         (req[r].cookie \in loggedOut /\ req[r].pc # "idle"
            /\ ~SkipsProtect(req[r]))
         => /\ req[r].protect # "next"
            /\ ~req[r].locals
            /\ ~req[r].handler

\* a protected request presented the cookie of a session a logout had
\* deleted, and was answered without being forwarded
C21_Witness ==
    \E r \in Req : /\ req[r].cookie \in loggedOut
                    /\ ~SkipsProtect(req[r])
                    /\ req[r].getCalls = 1
                    /\ req[r].pc = "done"

\* C22: a provider that was registered is returned by GetProvider under
\* its ID, and GetProvider of an identifier that was never registered
\* returns the not-found error and no provider: a handshake request for
\* "github" gets the github provider, one for "gitlab" ends with the error.
C22_RegistryByID ==
    /\ GitHub.id \in DOMAIN providers
    /\ Provider(GitHub.id) = GitHub
    /\ \A r \in Req :
         (Route(req[r]) \in {"begin", "complete"}
            /\ req[r].pc \in {"user", "create", "done"}
            /\ Params(req[r].path) # "")
         => IF Params(req[r].path) = GitHub.id
            THEN req[r].prov = GitHub /\ req[r].err # "ErrNoProvider"
            ELSE /\ req[r].prov = NoProvider
                 /\ req[r].result = "error"
                 /\ req[r].err = "ErrNoProvider"

\* a handshake for the registered provider went on with it
C22_Witness ==
    \E r \in Req : /\ Route(req[r]) = "begin"
                    /\ Params(req[r].path) = GitHub.id
                    /\ req[r].prov = GitHub
                    /\ req[r].result = "redirect"

C24_HardFailure403 ==
    \A r \in Req :
      (req[r].result = "error"
         /\ (req[r].protect = "error" \/ req[r].csrf = "error"))
      => /\ req[r].via = "cfg.ErrorHandler"
         /\ req[r].status = StatusForbidden

\* C25: a BeginAuth that fails (no provider name, unknown provider, nonce
\* generation) ends in the configured error handler, with the error
\* MissingProviderName for an absent name and the registry's not-found
\* error for an unknown provider, and issues no redirect.
C25_BeginAuthDelegates ==
    \A r \in Req :
      (Route(req[r]) = "begin" /\ req[r].result = "error")
      => /\ req[r].via = "cfg.ErrorHandler"
         /\ req[r].authURL = ""
         /\ (Params(req[r].path) # "" /\ ~GetProvider(Params(req[r].path)))
              => req[r].err = "ErrNoProvider"

\* C26: after a CompleteAuth that succeeded, the users table holds a User
\* for the identity that authenticated, the User the callback went on
\* with is that one, and the session it created is owned by it; callbacks
\* of different identities so get different Users.
C26_UpsertPerIdentity ==
    \A r \in Req :
      (Route(req[r]) = "complete" /\ req[r].result = "ok")
      => /\ req[r].ident \in users
         /\ req[r].user = req[r].ident
         /\ store[req[r].created].userID = req[r].ident

\* C27: with requests served one after another, a protected request whose
\* session passed the validity check and whose refresh did not fail has
\* newExpiry = now + SessionTTL, made exactly one RefreshSession call and
\* re-issued the cookie with its token, and the Expires of that cookie
\* equals the expiresAt stored for the session.
C27_SlideOnce ==
    \A r \in Req :
      (req[r].validRes /\ req[r].pc \in PastRefresh
         /\ req[r].protect # "error")
      => /\ req[r].protect = "next"
         /\ req[r].refreshCalls = 1
         /\ req[r].sess.expiresAt = req[r].slideAt + SessionTTL
         /\ req[r].cookieOut = req[r].sess.expiresAt
         /\ req[r].cookieTok = req[r].cookie
         /\ store[req[r].cookie].expiresAt = req[r].cookieOut

\* a request slid its session some time after the login and was answered
C27_Witness ==
    \E r \in Req : /\ req[r].protect = "next"
                    /\ req[r].pc = "done"
                    /\ req[r].slideAt > 0
                    /\ store[req[r].cookie].expiresAt
                         = req[r].slideAt + SessionTTL

\* C28: CompleteAuth creates a session only for a handshake that is
\* Pending: a callback that created a session carries a state that an
\* earlier BeginAuth handed to the provider; a callback without state or
\* with a state never issued creates none.
C28_OnlyPendingCompletes ==
    \A r \in Req :
      (Route(req[r]) = "complete" /\ req[r].created # 0)
      => /\ req[r].state \in States
         /\ handed[req[r].state] > 0

\* C29: no two BeginAuth attempts hand the same state value to
\* provider.BeginAuth.
C29_FreshStatePerAttempt == \A s \in States : handed[s] <= 1

\* C30: after the Protect middleware forwarded a request, SessionFromContext
\* returns the session with the new expiry, TokenFromContext the session
\* id, and the user id of the owner is in the request state; when it
\* answered with a redirect or an error, none of the three is set.
C30_LocalsAfterForward ==
    \A r \in Req :
      /\ req[r].protect = "next"
           => /\ SessionFromContext(req[r])
              /\ req[r].sess.expiresAt = req[r].cookieOut
              /\ TokenFromContext(req[r]) = req[r].sess.token
              /\ req[r].userLocal.val = req[r].sess.userID
      /\ req[r].protect \in {"redirect", "error"}
           => /\ ~SessionFromContext(req[r])
              /\ req[r].tokenLocal = NoLocal
              /\ req[r].userLocal = NoLocal

C32_RotationKeepsSession ==
    [][\A r \in Req :
         (req[r].pc = "update" /\ req'[r].pc # "update"
            /\ store[req[r].cookie] # NoSession)
         => /\ store'[req[r].cookie].expiresAt
                 >= store[req[r].cookie].expiresAt
            /\ store'[req[r].cookie].token = store[req[r].cookie].token
            /\ store'[req[r].cookie].userID = store[req[r].cookie].userID
      ]_vars

\* C33: no handler extends an expired session: a request whose session
\* was found expired at the validity check (now >= expiresAt) makes no
\* RefreshSession call, gets no cookie and does not reach the downstream
\* handler, in SessionHandler as in NewProtectedHandler.
C33_NoExpiredExtended ==
    \A r \in Req :
      (req[r].validAt >= 0 /\ ~req[r].validRes)
      => /\ req[r].pc = "done"
         /\ req[r].refreshCalls = 0
         /\ req[r].cookieOut = -1
         /\ ~req[r].handler

\* C37: on a path with none of the login, logout and callback prefixes,
\* NewProtectedHandler(h) behaves as NewProtectMiddleware followed by h:
\* every step it takes on a request (redirect, error handler, adapter
\* call, cookie, request state, handing on to h) is the step the
\* middleware takes on that request in that state.
C37_ProtectedAsMiddleware ==
    [][\A r \in Req :
         (req[r].app = "protected" /\ req'[r] # req[r]
            /\ req[r].pc \in {"protect", "valid", "slide", "refresh"}
            /\ ~HasPrefix(req[r].path, LoginURL)
            /\ ~HasPrefix(req[r].path, LogoutURL)
            /\ ~HasPrefix(req[r].path, CallbackURL))
         => \/ ProtectEntry(r)
            \/ ProtectValid(r)
            \/ ProtectSlide(r)
            \/ ProtectRefresh(r)
      ]_vars

\* C34: under any interleaving of a logout with protected requests and
\* csrf rotations on the same token, a session a logout deleted does not
\* exist again, and a request whose RefreshSession wrote to no session is
\* not forwarded as validated by the Protect middleware.
C34_DeletedStaysDeleted ==
    /\ \A t \in loggedOut : GetSession(store, t) = NoSession
    /\ \A r \in Req :
         req[r].wroteNone
         => /\ req[r].protect # "next"
            /\ ~req[r].locals
            /\ ~req[r].handler

\* C35: a protected request whose RefreshSession failed ends in the error
\* handler after that one call, with no cookie re-issued, nothing in the
\* request state and the downstream handler not invoked.
C35_RefreshFailureStops ==
    \A r \in Req :
      (req[r].refreshCalls > 0 /\ req[r].protect = "error")
      => /\ req[r].pc = "done"
         /\ req[r].result = "error"
         /\ req[r].via = "cfg.ErrorHandler"
         /\ req[r].refreshCalls = 1
         /\ req[r].cookieOut = -1
         /\ ~req[r].locals
         /\ req[r].tokenLocal = NoLocal
         /\ req[r].userLocal = NoLocal
         /\ ~req[r].handler

\* the RefreshSession of a request with a valid session failed
C35_Witness ==
    \E r \in Req : /\ req[r].refreshCalls = 1
                    /\ req[r].validRes
                    /\ req[r].protect = "error"
                    /\ req[r].err = "ErrIO"

\* C36: a CompleteAuth that succeeds creates one session, under a token
\* no stored session has, and leaves every other session as it was; the
\* refresh of a protected request changes no session but the one of its
\* token.
C36_OneNewSession ==
    [][\A r \in Req :
         /\ (req[r].pc = "create" /\ req'[r].result = "ok")
              => /\ req'[r].created \in SessTok
                 /\ store[req'[r].created] = NoSession
                 /\ req'[r].created \notin loggedOut
                 /\ store'[req'[r].created] # NoSession
                 /\ \A t \in SessTok \ {req'[r].created} :
                      store'[t] = store[t]
         /\ (req[r].pc = "refresh" /\ req'[r].pc # "refresh")
              => \A t \in SessTok \ {req[r].cookie} : store'[t] = store[t]
      ]_vars

\* a callback created the second session next to the first
C36_Witness ==
    \E r \in Req : /\ req[r].result = "ok"
                    /\ req[r].created = 2
                    /\ store[1] # NoSession
                    /\ store[2] # NoSession

====
